---------------------------- MODULE Spec2Model ----------------------------
(***************************************************************************)
(* The exponentiation kernels of powerix (src/src/pow_impl.hpp and the     *)
(* template variants kept in src/benchmark/benchmark_pow.cpp) as state     *)
(* machines.                                                               *)
(*                                                                         *)
(* Integer values of the base type T are bit patterns 0 .. 2^IntBits - 1;  *)
(* every product is reduced modulo 2^IntBits (the arithmetic of the        *)
(* unsigned instantiations, and of the signed ones under wrap-around).     *)
(* A bit pattern >= 2^(IntBits-1) is a negative value of a signed T.       *)
(* Exponents are mathematical integers drawn from the range of the         *)
(* exponent type: ExpBits-bit signed (int) or unsigned (unsigned int).     *)
(***************************************************************************)
EXTENDS Integers, Sequences, FiniteSets, TLC

\* width w of the integer base type T
IntBits == 12
\* width of the exponent types int / unsigned int
ExpBits == 5
\* bases are drawn from -MaxBase .. MaxBase (as bit patterns)
MaxBase == 5

Modulus == 2 ^ IntBits

IntValues == 0 .. (Modulus - 1)

\* two's-complement bit pattern of a small signed integer
Pattern(n) == n % Modulus

\* the value a signed T reads from a bit pattern
Signed(v) == IF v >= Modulus \div 2 THEN v - Modulus ELSE v

IntBases == { Pattern(n) : n \in (0 - MaxBase) .. MaxBase }

SignedExp == (0 - 2 ^ (ExpBits - 1)) .. (2 ^ (ExpBits - 1) - 1)

UnsignedExp == 0 .. (2 ^ ExpBits - 1)

\* an integral ExpType of the templates: a signed or an unsigned instantiation
AnyExp == SignedExp \cup UnsignedExp

\* Mul with the product reduced to one bit too few
Mul_narrow(x, y) == (x * y) % (Modulus \div 2)

\* T operator*(T, T): the product in the width of T
Mul(x, y) == (x * y) % Modulus

\* exp >> 1 (arithmetic shift for a negative signed exponent)
Shr1(e) == e \div 2

\* exp & 1
Odd(e) == e % 2 = 1

---------------------------------------------------------------------------
(* Kernels that run to completion in one step, as operators.               *)

\* pow_hierarchical_int without the multiplication for an odd exponent
RECURSIVE pow_hierarchical_int_no_odd(_, _)
pow_hierarchical_int_no_odd(base, exp) ==
    IF exp = 0 THEN 1
    ELSE IF exp = 1 THEN base
    ELSE pow_hierarchical_int_no_odd((base * base) % Modulus, exp \div 2)

\* pow_hierarchical_int(Base base, unsigned int exp)
RECURSIVE pow_hierarchical_int(_, _)
pow_hierarchical_int(base, exp) ==
    IF exp = 0 THEN 1
    ELSE IF exp = 1 THEN base
    ELSE LET half == pow_hierarchical_int(Mul(base, base), Shr1(exp))
         IN  IF Odd(exp) THEN Mul(base, half) ELSE half

\* the while (exp > 1) loop of pow_ultra_fast; yields the locals at exit
RECURSIVE ultra_loop(_, _, _)
ultra_loop(res, base, exp) ==
    IF exp > 1
    THEN ultra_loop(IF Odd(exp) THEN Mul(res, base) ELSE res,
                    Mul(base, base), Shr1(exp))
    ELSE [result |-> res, base |-> base]

\* pow_ultra_fast without its test for exponent 0
pow_ultra_fast_no_zero(base, exp) ==
    CASE exp = 1 -> base
      [] exp = 2 -> Mul(base, base)
      [] exp = 3 -> Mul(Mul(base, base), base)
      [] exp = 4 -> LET sq == Mul(base, base) IN Mul(sq, sq)
      [] exp = 8 -> LET sq == Mul(base, base)
                        quad == Mul(sq, sq)
                    IN  Mul(quad, quad)
      [] OTHER   -> LET l == ultra_loop(1, base, exp)
                    IN  Mul(l.result, l.base)

\* pow_ultra_fast(T base, unsigned int exp) and the template over ExpType
pow_ultra_fast(base, exp) ==
    IF exp = 0 THEN 1
    ELSE CASE exp = 1 -> base
           [] exp = 2 -> Mul(base, base)
           [] exp = 3 -> Mul(Mul(base, base), base)
           [] exp = 4 -> LET sq == Mul(base, base) IN Mul(sq, sq)
           [] exp = 8 -> LET sq == Mul(base, base)
                             quad == Mul(sq, sq)
                         IN  Mul(quad, quad)
           [] OTHER   -> LET l == ultra_loop(1, base, exp)
                         IN  Mul(l.result, l.base)

---------------------------------------------------------------------------
(* Floating-point values.  A float is a reduced fraction <<n, d>>, d > 0.  *)
(* The bases are multiples of 2^-FloatGridBits and the exponents small, so *)
(* every product is exactly representable and no rounding takes place.     *)
(* The integer-exponent kernels are called with finite bases only.        *)

\* float bases are k * 2^-FloatGridBits for k in -MaxK .. MaxK
MaxK == 2

FloatGridBits == 11

Abs(n) == IF n < 0 THEN 0 - n ELSE n

RECURSIVE GCD(_, _)
GCD(a, b) == IF b = 0 THEN a ELSE GCD(b, a % b)

FNorm(n, d) == LET g == GCD(Abs(n), d) IN <<n \div g, d \div g>>

FOne == <<1, 1>>

\* std::numeric_limits<double>::quiet_NaN(), +infinity and -infinity
FNaN == <<0, 0>>

FInf == <<1, 0>>

FNegInf == <<0 - 1, 0>>

\* FloatType operator*(FloatType, FloatType)
FMul(x, y) == FNorm(x[1] * y[1], x[2] * y[2])

FloatBases == { FNorm(k, 2 ^ FloatGridBits) : k \in (0 - MaxK) .. MaxK }

\* pow_hierarchical_float(FloatType base, unsigned int exp)
RECURSIVE pow_hierarchical_float(_, _)
pow_hierarchical_float(base, exp) ==
    IF exp = 0 THEN FOne
    ELSE IF exp = 1 THEN base
    ELSE LET half == pow_hierarchical_float(FMul(base, base), Shr1(exp))
         IN  IF Odd(exp) THEN FMul(base, half) ELSE half

\* std::pow(double, int) of the C++ library for an exponent >= 0: the
\* mathematical power (exactly representable for the bases of the model)
RECURSIVE StdPow(_, _)
StdPow(base, exp) ==
    IF exp = 0 THEN FOne ELSE FMul(base, StdPow(base, exp - 1))


---------------------------------------------------------------------------
(* double values with the IEEE special cases: <<n, d>> with d > 0 is the   *)
(* finite value n/d, <<0, 0>> is NaN, <<1, 0>> and <<-1, 0>> are the        *)
(* infinities.  Finite results are exact: rounding is not modelled.        *)

FZero == <<0, 1>>

FIsNaN(x) == x = FNaN

FIsInf(x) == x[2] = 0 /\ x[1] # 0

FIsFinite(x) == x[2] # 0

\* n/d for d # 0 of either sign
FRatio(n, d) == IF d < 0 THEN FNorm(0 - n, 0 - d) ELSE FNorm(n, d)

\* the integer m as a double
FInt(m) == <<m, 1>>

FNeg(x) == <<0 - x[1], x[2]>>

\* std::abs(double)
FAbs(x) == <<Abs(x[1]), x[2]>>

\* x < y of two doubles: false when either is NaN
FLess(x, y) ==
    /\ ~FIsNaN(x) /\ ~FIsNaN(y)
    /\ x # y
    /\ IF FIsInf(x) THEN x = FNegInf
       ELSE IF FIsInf(y) THEN y = FInf
       ELSE x[1] * y[2] < y[1] * x[2]

\* x + y
FAdd(x, y) ==
    IF FIsNaN(x) \/ FIsNaN(y) THEN FNaN
    ELSE IF FIsInf(x) THEN (IF FIsInf(y) /\ y # x THEN FNaN ELSE x)
    ELSE IF FIsInf(y) THEN y
    ELSE LET g == GCD(x[2], y[2])
         IN  FNorm(x[1] * (y[2] \div g) + y[1] * (x[2] \div g),
                   (x[2] \div g) * y[2])

\* x - y
FSub(x, y) == FAdd(x, FNeg(y))

\* x * y with NaN and infinite operands
FTimes(x, y) ==
    IF FIsNaN(x) \/ FIsNaN(y) THEN FNaN
    ELSE IF FIsInf(x) \/ FIsInf(y)
    THEN (IF x[1] * y[1] = 0 THEN FNaN
          ELSE IF (x[1] > 0) = (y[1] > 0) THEN FInf ELSE FNegInf)
    ELSE FMul(x, y)

\* x / y
FDiv(x, y) ==
    IF FIsNaN(x) \/ FIsNaN(y) THEN FNaN
    ELSE IF FIsInf(x)
    THEN (IF FIsInf(y) THEN FNaN
          ELSE IF (x[1] > 0) = (y[1] >= 0) THEN FInf ELSE FNegInf)
    ELSE IF FIsInf(y) THEN FZero
    ELSE IF y[1] = 0
    THEN (IF x[1] = 0 THEN FNaN ELSE IF x[1] > 0 THEN FInf ELSE FNegInf)
    ELSE FRatio(x[1] * y[2], x[2] * y[1])

\* compute_error that leaves the sign on the difference
compute_error_signed(reference, value) ==
    LET abs_err == FSub(reference, value)
        rel_err == IF reference # FZero
                   THEN FDiv(abs_err, FAbs(reference)) ELSE FZero
    IN  [abs_err |-> abs_err, rel_err |-> rel_err]

\* compute_error that scores a NaN difference as 0
compute_error_nan_as_zero(reference, value) ==
    LET d == FSub(reference, value)
        abs_err == IF FIsNaN(d) THEN FZero ELSE FAbs(d)
        rel_err == IF reference # FZero
                   THEN FDiv(abs_err, FAbs(reference)) ELSE FZero
    IN  [abs_err |-> abs_err, rel_err |-> rel_err]

\* Error compute_error(double reference, double value)
compute_error(reference, value) ==
    LET abs_err == FAbs(FSub(reference, value))
        rel_err == IF reference # FZero
                   THEN FDiv(abs_err, FAbs(reference)) ELSE FZero
    IN  [abs_err |-> abs_err, rel_err |-> rel_err]

---------------------------------------------------------------------------
(* The x^(2/3) kernels.  A cube root that is rational is that rational;    *)
(* any other is kept as <<n, d, 3>>, the real cube root of n/d.            *)

\* the largest r >= from with r^3 <= m
RECURSIVE CubeRootFloor(_, _)
CubeRootFloor(m, from) ==
    IF (from + 1) * (from + 1) * (from + 1) > m THEN from
    ELSE CubeRootFloor(m, from + 1)

IsCube(m) ==
    LET r == CubeRootFloor(m, 0) IN r * r * r = m

\* double cbrt(double)
Cbrt(x) ==
    IF ~FIsFinite(x) THEN x
    ELSE IF IsCube(Abs(x[1])) /\ IsCube(x[2])
    THEN <<(IF x[1] < 0 THEN 0 - 1 ELSE 1) * CubeRootFloor(Abs(x[1]), 0),
           CubeRootFloor(x[2], 0)>>
    ELSE <<x[1], x[2], 3>>

\* std::round(::cbrt(x)) for a finite x > 0: the n with
\* (n - 1/2)^3 <= x < (n + 1/2)^3
RECURSIVE RoundCbrt(_, _)
RoundCbrt(x, from) ==
    IF 8 * x[1] < (2 * from + 1) * (2 * from + 1) * (2 * from + 1) * x[2]
    THEN from
    ELSE RoundCbrt(x, from + 1)

\* ::pow(x, 2.0/3.0) for x > 0
PowTwoThirds(x) == Cbrt(FTimes(x, x))

\* pow_2_3_cbrt(T x)
pow_2_3_cbrt(x) ==
    LET x_squared == FTimes(x, x)
    IN  Cbrt(x_squared)

\* pow_2_3_exp_log(T base): ::exp(two_thirds * ::log(base)), with
\* log(negative) = NaN, log(0) = -infinity and exp(-infinity) = 0
pow_2_3_exp_log(base) ==
    IF FIsNaN(base) \/ FLess(base, FZero) THEN FNaN
    ELSE IF base = FZero THEN FZero
    ELSE IF base = FInf THEN FInf
    ELSE PowTwoThirds(base)

\* constexpr double alpha = 2.0 / 3.0
alpha == FDiv(FInt(2), FInt(3))

\* constexpr int num_terms = 10
num_terms == 10

\* the factor without z
SeriesFactor_no_z(k, z) ==
    FDiv(FAdd(FSub(alpha, FInt(k)), FOne), FInt(k))

\* (alpha - k + 1.0) / k * z
SeriesFactor(k, z) ==
    FTimes(FDiv(FAdd(FSub(alpha, FInt(k)), FOne), FInt(k)), z)
---------------------------------------------------------------------------
(* The memoized kernels.  Each operator takes the function's static cache  *)
(* and the arguments, and yields the value returned, the cache afterwards  *)
(* and the number of times the fallback computation ran.                   *)

\* exponents passed to the memoized kernels: 0 .. MaxCacheExp
MaxCacheExp == 2
\* integer bases passed to the memoized kernels: -1 .. MaxCacheBase, MAX_BASE
MaxCacheBase == 2
\* template defaults of pow_cached_static_array
MAX_BASE == 16
MAX_EXP == 16
\* pow_vec_cached_float: static_cast<size_t>(std::abs(base) * 1000)
Discretization == 1000

CacheExps == 0 .. MaxCacheExp

CacheIntBases == (0 .. MaxCacheBase) \cup {Pattern(0 - 1), MAX_BASE}

StaticExps == CacheExps \cup {MAX_EXP}

\* exponents passed to the vector kernels: the largest unsigned int included
\* (pow_vec_cached_float gets it with base 0.0 only, whose power the
\* fractions of the model can hold)
VecExps == CacheExps \cup {2 ^ ExpBits - 1}

\* std::map / std::unordered_map: the empty table, find, operator[] = value
EmptyMap == <<>>

MapHas(m, k) == k \in DOMAIN m

MapPut(m, k, v) == [x \in DOMAIN m \cup {k} |-> IF x = k THEN v ELSE m[x]]

\* std::optional: nullopt, a value
NullOpt == <<>>

Some(v) == <<v>>

\* std::vector<X>::resize(n) with value-initialised new elements
VecResize(v, n, fill) ==
    IF n <= Len(v) THEN SubSeq(v, 1, n)
    ELSE v \o [i \in 1 .. (n - Len(v)) |-> fill]

\* exp + 1 in unsigned int
ExpPlus1(e) == (e + 1) % (2 ^ ExpBits)

\* pow_cached_map(double base, int exp)
pow_cached_map(cache, base, exp) ==
    LET key == <<base, exp>>
    IN  IF MapHas(cache, key)
        THEN [ret |-> cache[key], cache |-> cache, computed |-> 0]
        ELSE LET result == StdPow(base, exp)
             IN  [ret |-> result, cache |-> MapPut(cache, key, result),
                  computed |-> 1]

\* pow_cached_unordered_nested(double base, int exp)
pow_cached_unordered_nested(cache, base, exp) ==
    IF MapHas(cache, base) /\ MapHas(cache[base], exp)
    THEN [ret |-> cache[base][exp], cache |-> cache, computed |-> 0]
    ELSE LET result == StdPow(base, exp)
             inner == IF MapHas(cache, base) THEN cache[base] ELSE EmptyMap
         IN  [ret |-> result,
              cache |-> MapPut(cache, base, MapPut(inner, exp, result)),
              computed |-> 1]

\* pow_cached_unordered_pair(double base, int exp)
pow_cached_unordered_pair(cache, base, exp) ==
    LET key == <<base, exp>>
    IN  IF MapHas(cache, key)
        THEN [ret |-> cache[key], cache |-> cache, computed |-> 0]
        ELSE LET result == StdPow(base, exp)
             IN  [ret |-> result, cache |-> MapPut(cache, key, result),
                  computed |-> 1]

\* the two resizes that make cache[b][exp] exist
VecGrow(cache, b, exp) ==
    LET c1 == IF b >= Len(cache) THEN VecResize(cache, b + 1, <<>>) ELSE cache
    IN  IF exp >= Len(c1[b + 1])
        THEN [c1 EXCEPT ![b + 1] = VecResize(@, ExpPlus1(exp), NullOpt)]
        ELSE c1

\* pow_cached_vector_optional_int<IntType>(IntType base, unsigned int exp).
\* oob: after the resizes cache[b][exp] is still outside the row (exp + 1
\* wrapped to 0), so has_value() and the assignment access memory out of
\* bounds; the record is the outcome in which the read finds no value
pow_cached_vector_optional_int(cache, base, exp) ==
    IF Signed(base) < 0
    THEN [ret |-> pow_hierarchical_int(base, exp), cache |-> cache,
          computed |-> 1, oob |-> FALSE]
    ELSE LET b == base
             c == VecGrow(cache, b, exp)
         IN  IF exp >= Len(c[b + 1])
             THEN [ret |-> pow_hierarchical_int(base, exp), cache |-> c,
                   computed |-> 1, oob |-> TRUE]
             ELSE IF c[b + 1][exp + 1] # NullOpt
             THEN [ret |-> c[b + 1][exp + 1][1], cache |-> c, computed |-> 0,
                   oob |-> FALSE]
             ELSE LET result == pow_hierarchical_int(base, exp)
                  IN  [ret |-> result,
                       cache |-> [c EXCEPT ![b + 1][exp + 1] = Some(result)],
                       computed |-> 1, oob |-> FALSE]

\* the index pow_vec_cached_float files a base under
FloatIndex(base) == (Abs(base[1]) * Discretization) \div base[2]

\* pow_vec_cached_float<FloatType>(FloatType base, unsigned int exp)
pow_vec_cached_float(cache, base, exp) ==
    LET b == FloatIndex(base)
        c == VecGrow(cache, b, exp)
    IN  IF exp >= Len(c[b + 1])
        THEN [ret |-> pow_hierarchical_float(base, exp), cache |-> c,
              computed |-> 1, oob |-> TRUE]
        ELSE IF c[b + 1][exp + 1] # NullOpt
        THEN [ret |-> c[b + 1][exp + 1][1], cache |-> c, computed |-> 0,
              oob |-> FALSE]
        ELSE LET result == pow_hierarchical_float(base, exp)
             IN  [ret |-> result,
                  cache |-> [c EXCEPT ![b + 1][exp + 1] = Some(result)],
                  computed |-> 1, oob |-> FALSE]

\* static IntType cache[MAX_BASE][MAX_EXP] = {} and
\* static bool is_cached[MAX_BASE][MAX_EXP] = {}
ZeroArray == [b \in 0 .. (MAX_BASE - 1) |-> [e \in 0 .. (MAX_EXP - 1) |-> 0]]

FalseArray ==
    [b \in 0 .. (MAX_BASE - 1) |-> [e \in 0 .. (MAX_EXP - 1) |-> FALSE]]

\* pow_cached_static_array that sets the flag and never stores the value
pow_cached_static_array_flag_only(cache, flags, base, exp) ==
    IF Signed(base) >= 0 /\ base < MAX_BASE /\ exp < MAX_EXP
    THEN IF flags[base][exp]
         THEN [ret |-> cache[base][exp], cache |-> cache, is_cached |-> flags,
               computed |-> 0]
         ELSE [ret |-> pow_hierarchical_int(base, exp), cache |-> cache,
               is_cached |-> [flags EXCEPT ![base][exp] = TRUE],
               computed |-> 1]
    ELSE [ret |-> pow_hierarchical_int(base, exp), cache |-> cache,
          is_cached |-> flags, computed |-> 1]

\* pow_cached_static_array that files an out-of-range call under the
\* indices reduced modulo the array sizes
pow_cached_static_array_wrapped_index(cache, flags, base, exp) ==
    LET b == base % MAX_BASE
        e == exp % MAX_EXP
        result == pow_hierarchical_int(base, exp)
    IN  IF Signed(base) >= 0 /\ base < MAX_BASE /\ exp < MAX_EXP /\ flags[b][e]
        THEN [ret |-> cache[b][e], cache |-> cache, is_cached |-> flags,
              computed |-> 0]
        ELSE [ret |-> result,
              cache |-> [cache EXCEPT ![b][e] = result],
              is_cached |-> [flags EXCEPT ![b][e] = TRUE],
              computed |-> 1]

\* pow_cached_static_array<IntType>(IntType base, unsigned int exp)
pow_cached_static_array(cache, flags, base, exp) ==
    IF Signed(base) >= 0 /\ base < MAX_BASE /\ exp < MAX_EXP
    THEN IF flags[base][exp]
         THEN [ret |-> cache[base][exp], cache |-> cache, is_cached |-> flags,
               computed |-> 0]
         ELSE LET result == pow_hierarchical_int(base, exp)
              IN  [ret |-> result,
                   cache |-> [cache EXCEPT ![base][exp] = result],
                   is_cached |-> [flags EXCEPT ![base][exp] = TRUE],
                   computed |-> 1]
    ELSE [ret |-> pow_hierarchical_int(base, exp), cache |-> cache,
          is_cached |-> flags, computed |-> 1]

---------------------------------------------------------------------------
(* State.  A run exercises one kernel, as one instantiation of the         *)
(* benchmark template BM_PowGeneric_T calls its PowFunc over a dataset.    *)

VARIABLES
    fn,        \* the kernel under call (PowFunc)
    pc,        \* "idle", "loop", "descend", "unwind", "root", "divide",
               \* "series", "done"
    base0,     \* the base argument of the current / most recent call
    exp0,      \* the exponent argument of the current / most recent call
    result,    \* pow_fast_int: T result
    current,   \* pow_fast_int: T current
    exp,       \* pow_fast_int: the exponent being shifted
    iters,     \* pow_fast_int: loop iterations executed in this call
    mults,     \* pow_fast_int: multiplications executed in this call
    stack,     \* pow_hierarchical: the frames <<base, exp>>, innermost first
    depth,     \* pow_hierarchical: recursive calls made in this call
    ret,       \* the value returned
    cache,     \* the static cache of the memoized kernel fn
    is_cached, \* pow_cached_static_array: the static flags
    ncalls,    \* calls of the memoized kernel made so far
    computed,  \* fallback computations run by the most recent memoized call
    tpc,       \* per thread: its position in the memoized kernel
    targ,      \* per thread: the arguments <<base, exp>> of its call
    tcold,     \* per thread: the key was not stored when the call began
    tmode,     \* per thread: what its current cache access does
    tres,      \* per thread: the local result
    tret,      \* per thread: the value returned
    corrupt,   \* two unsynchronised accesses conflicted: the cache is undefined
    s_x,       \* pow_2_3_series: double x
    s_n,       \* pow_2_3_series: double n
    s_a,       \* pow_2_3_series: double a
    s_z,       \* pow_2_3_series: double z
    s_sum,     \* pow_2_3_series: double sum
    s_term,    \* pow_2_3_series: double term
    s_k,       \* pow_2_3_series: int k
    s_ops,     \* pow_2_3_series: cube roots, divisions and series steps run
    err_ref,   \* compute_error: the reference argument
    err_val,   \* compute_error: the value argument
    err        \* compute_error: the Error returned

vars == <<fn, pc, base0, exp0, result, current, exp, iters, mults, stack, depth,
          ret,
          cache, is_cached, ncalls, computed,
          tpc, targ, tcold, tmode, tres, tret, corrupt,
          s_x, s_n, s_a, s_z, s_sum, s_term, s_k, s_ops,
          err_ref, err_val, err>>

seriesVars == <<s_x, s_n, s_a, s_z, s_sum, s_term, s_k, s_ops>>

errVars == <<err_ref, err_val, err>>

threadVars == <<tpc, targ, tcold, tmode, tres, tret, corrupt>>

loopVars == <<result, current, exp, iters, mults>>

hierVars == <<stack, depth>>

memoVars == <<cache, is_cached, ncalls, computed>>

\* calls made to a memoized kernel in one run
MaxCalls == 3

\* the deepest recursion the model follows before it stops descending
MaxDepth == ExpBits + 2

PureKernels ==
    {"pow_fast_int", "pow_binary", "pow_hierarchical_int", "pow_hierarchical",
     "pow_ultra_fast", "pow_ultra_fast_T"}

MapKernels ==
    {"pow_cached_map", "pow_cached_unordered_nested",
     "pow_cached_unordered_pair"}

VectorKernels == {"pow_cached_vector_optional_int", "pow_vec_cached_float"}

MemoKernels == MapKernels \cup VectorKernels \cup {"pow_cached_static_array"}

\* the x^(2/3) kernels
SeriesKernels == {"pow_2_3_series", "pow_2_3_series_float"}

FracKernels == {"pow_2_3_cbrt", "pow_2_3_exp_log"} \cup SeriesKernels

Kernels == PureKernels \cup MemoKernels \cup FracKernels \cup {"compute_error"}

\* no pow_2_3_series call is in progress
SeriesIdle ==
    /\ s_x = FZero
    /\ s_n = FZero
    /\ s_a = FZero
    /\ s_z = FZero
    /\ s_sum = FZero
    /\ s_term = FZero
    /\ s_k = 0
    /\ s_ops = 0

\* a value-initialised Error
NoError == [abs_err |-> FZero, rel_err |-> FZero]

\* no compute_error call has returned
ErrorIdle ==
    /\ err_ref = FZero
    /\ err_val = FZero
    /\ err = NoError

\* threads calling one memoized kernel concurrently
NThreads == 2

Threads == 1 .. NThreads

\* no thread is inside the kernel
ThreadsIdle ==
    /\ tpc = [t \in Threads |-> "idle"]
    /\ targ = [t \in Threads |-> <<0, 0>>]
    /\ tcold = [t \in Threads |-> FALSE]
    /\ tmode = [t \in Threads |-> "none"]
    /\ tres = [t \in Threads |-> 0]
    /\ tret = [t \in Threads |-> 0]
    /\ corrupt = FALSE

\* the static cache of kernel f before its first call
EmptyCache(f) ==
    IF f \in MapKernels THEN EmptyMap
    ELSE IF f \in VectorKernels THEN <<>>
    ELSE IF f = "pow_cached_static_array" THEN ZeroArray
    ELSE <<>>

Init ==
    /\ fn \in Kernels
    /\ pc = "idle"
    /\ base0 = 0
    /\ exp0 = 0
    /\ result = 0
    /\ current = 0
    /\ exp = 0
    /\ iters = 0
    /\ mults = 0
    /\ stack = <<>>
    /\ depth = 0
    /\ ret = 0
    /\ cache = EmptyCache(fn)
    /\ is_cached = IF fn = "pow_cached_static_array" THEN FalseArray ELSE <<>>
    /\ ncalls = 0
    /\ computed = 0
    /\ ThreadsIdle
    /\ SeriesIdle
    /\ ErrorIdle

---------------------------------------------------------------------------
(* pow_fast_int / pow_binary: entry with the early returns, then the loop. *)

\* pow_fast_int without the test for a negative exponent
Enter_binary_no_negative_test(b, e) ==
    /\ pc = "idle"
    /\ base0' = b
    /\ exp0' = e
    /\ iters' = 0
    /\ mults' = 0
    /\ UNCHANGED <<fn, threadVars, seriesVars, errVars, hierVars, memoVars>>
    /\ IF e = 0
       THEN /\ ret' = 1
            /\ pc' = "done"
            /\ UNCHANGED <<result, current, exp>>
       ELSE IF e = 1
       THEN /\ ret' = b
            /\ pc' = "done"
            /\ UNCHANGED <<result, current, exp>>
       ELSE /\ result' = 1
            /\ current' = b
            /\ exp' = e
            /\ pc' = "loop"
            /\ UNCHANGED ret

\* the early returns, then T result = 1, T current = base
Enter_binary(b, e) ==
    /\ pc = "idle"
    /\ base0' = b
    /\ exp0' = e
    /\ iters' = 0
    /\ mults' = 0
    /\ UNCHANGED <<fn, threadVars, seriesVars, errVars, hierVars, memoVars>>
    /\ IF e < 0
       THEN /\ ret' = 0
            /\ pc' = "done"
            /\ UNCHANGED <<result, current, exp>>
       ELSE IF e = 0
       THEN /\ ret' = 1
            /\ pc' = "done"
            /\ UNCHANGED <<result, current, exp>>
       ELSE IF e = 1
       THEN /\ ret' = b
            /\ pc' = "done"
            /\ UNCHANGED <<result, current, exp>>
       ELSE /\ result' = 1
            /\ current' = b
            /\ exp' = e
            /\ pc' = "loop"
            /\ UNCHANGED ret

\* pow_fast_int(T base, int exp)
Call_pow_fast_int ==
    /\ fn = "pow_fast_int"
    /\ \E b \in IntBases, e \in SignedExp : Enter_binary(b, e)

\* pow_binary<T, ExpType>(T base, ExpType exp)
Call_pow_binary ==
    /\ fn = "pow_binary"
    /\ \E b \in IntBases, e \in AnyExp : Enter_binary(b, e)

\* the loop with the squaring ahead of the conditional multiplication
LoopStep_square_first ==
    /\ pc = "loop"
    /\ UNCHANGED <<fn, threadVars, seriesVars, errVars, base0, exp0, hierVars, memoVars>>
    /\ IF exp > 0
       THEN /\ current' = Mul(current, current)
            /\ result' = IF Odd(exp) THEN Mul(result, current') ELSE result
            /\ exp' = Shr1(exp)
            /\ iters' = iters + 1
            /\ mults' = mults + (IF Odd(exp) THEN 2 ELSE 1)
            /\ UNCHANGED <<pc, ret>>
       ELSE /\ ret' = result
            /\ pc' = "done"
            /\ UNCHANGED loopVars

\* the loop shifting the exponent by two bits an iteration
LoopStep_two_bits ==
    /\ pc = "loop"
    /\ UNCHANGED <<fn, threadVars, seriesVars, errVars, base0, exp0, hierVars, memoVars>>
    /\ IF exp > 0
       THEN /\ result' = IF Odd(exp) THEN Mul(result, current) ELSE result
            /\ current' = Mul(current, current)
            /\ exp' = Shr1(Shr1(exp))
            /\ iters' = iters + 1
            /\ mults' = mults + (IF Odd(exp) THEN 2 ELSE 1)
            /\ UNCHANGED <<pc, ret>>
       ELSE /\ ret' = result
            /\ pc' = "done"
            /\ UNCHANGED loopVars

\* one evaluation of the loop condition, and the body when it holds
LoopStep ==
    /\ pc = "loop"
    /\ UNCHANGED <<fn, threadVars, seriesVars, errVars, base0, exp0, hierVars, memoVars>>
    /\ IF exp > 0
       THEN /\ result' = IF Odd(exp) THEN Mul(result, current) ELSE result
            /\ current' = Mul(current, current)
            /\ exp' = Shr1(exp)
            /\ iters' = iters + 1
            /\ mults' = mults + (IF Odd(exp) THEN 2 ELSE 1)
            /\ UNCHANGED <<pc, ret>>
       ELSE /\ ret' = result
            /\ pc' = "done"
            /\ UNCHANGED loopVars

---------------------------------------------------------------------------
(* pow_hierarchical_int / pow_hierarchical, one frame at a time.           *)

Enter_hierarchical(b, e) ==
    /\ pc = "idle"
    /\ base0' = b
    /\ exp0' = e
    /\ stack' = << <<b, e>> >>
    /\ depth' = 0
    /\ pc' = "descend"
    /\ UNCHANGED <<fn, threadVars, seriesVars, errVars, loopVars, ret, memoVars>>

\* pow_hierarchical_int(Base base, unsigned int exp)
Call_pow_hierarchical_int ==
    /\ fn = "pow_hierarchical_int"
    /\ \E b \in IntBases, e \in UnsignedExp : Enter_hierarchical(b, e)

\* pow_hierarchical<T, ExpType>(T base, ExpType exp)
Call_pow_hierarchical ==
    /\ fn = "pow_hierarchical"
    /\ \E b \in IntBases, e \in AnyExp : Enter_hierarchical(b, e)

\* the innermost frame tests its base cases, or calls itself on exp >> 1
Descend ==
    /\ pc = "descend"
    /\ UNCHANGED <<fn, threadVars, seriesVars, errVars, base0, exp0, loopVars, memoVars>>
    /\ LET b == Head(stack)[1]
           e == Head(stack)[2]
       IN  IF e = 0
           THEN /\ ret' = 1
                /\ stack' = Tail(stack)
                /\ pc' = "unwind"
                /\ UNCHANGED depth
           ELSE IF e = 1
           THEN /\ ret' = b
                /\ stack' = Tail(stack)
                /\ pc' = "unwind"
                /\ UNCHANGED depth
           ELSE /\ depth < MaxDepth
                /\ stack' = << <<Mul(b, b), Shr1(e)>> >> \o stack
                /\ depth' = depth + 1
                /\ UNCHANGED <<pc, ret>>

\* a frame receives half and returns (exp & 1u) ? base * half : half
Unwind ==
    /\ pc = "unwind"
    /\ UNCHANGED <<fn, threadVars, seriesVars, errVars, base0, exp0, loopVars, depth, memoVars>>
    /\ IF stack = <<>>
       THEN /\ pc' = "done"
            /\ UNCHANGED <<ret, stack>>
       ELSE LET b == Head(stack)[1]
                e == Head(stack)[2]
            IN  /\ ret' = IF Odd(e) THEN Mul(b, ret) ELSE ret
                /\ stack' = Tail(stack)
                /\ UNCHANGED pc

---------------------------------------------------------------------------
(* pow_ultra_fast                                                          *)

Enter_ultra_fast(b, e) ==
    /\ pc = "idle"
    /\ base0' = b
    /\ exp0' = e
    /\ ret' = pow_ultra_fast(b, e)
    /\ pc' = "done"
    /\ UNCHANGED <<fn, threadVars, seriesVars, errVars, loopVars, hierVars, memoVars>>

\* pow_ultra_fast(T base, unsigned int exp)
Call_pow_ultra_fast ==
    /\ fn = "pow_ultra_fast"
    /\ \E b \in IntBases, e \in UnsignedExp : Enter_ultra_fast(b, e)

\* pow_ultra_fast<T, ExpType>(T base, ExpType exp)
Call_pow_ultra_fast_T ==
    /\ fn = "pow_ultra_fast_T"
    /\ \E b \in IntBases, e \in AnyExp : Enter_ultra_fast(b, e)

---------------------------------------------------------------------------
(* The x^(2/3) kernels and compute_error.                                  *)

\* perfect cubes passed to the x^(2/3) kernels: (-MaxCubeRoot .. MaxCubeRoot)^3
MaxCubeRoot == 3

FracBases ==
    { FInt(m * m * m) : m \in (0 - MaxCubeRoot) .. MaxCubeRoot }
        \cup {FInt(2), FInt(3), FInt(0 - 2), <<1, 16>>, <<0 - 1, 16>>}

\* pow_2_3_cbrt(T x)
Call_pow_2_3_cbrt ==
    /\ fn = "pow_2_3_cbrt"
    /\ pc = "idle"
    /\ \E b \in FracBases :
           /\ base0' = b
           /\ ret' = pow_2_3_cbrt(b)
    /\ pc' = "done"
    /\ UNCHANGED <<fn, threadVars, seriesVars, errVars, exp0, loopVars,
                   hierVars, memoVars>>

\* pow_2_3_exp_log(T base)
Call_pow_2_3_exp_log ==
    /\ fn = "pow_2_3_exp_log"
    /\ pc = "idle"
    /\ \E b \in FracBases :
           /\ base0' = b
           /\ ret' = pow_2_3_exp_log(b)
    /\ pc' = "done"
    /\ UNCHANGED <<fn, threadVars, seriesVars, errVars, exp0, loopVars,
                   hierVars, memoVars>>

\* pow_2_3_series without the tests on base
Enter_series_no_tests(b) ==
    /\ pc = "idle"
    /\ base0' = b
    /\ s_x' = b
    /\ pc' = "root"
    /\ UNCHANGED <<fn, threadVars, errVars, exp0, loopVars, hierVars,
                   memoVars, ret, s_n, s_a, s_z, s_sum, s_term, s_k, s_ops>>

\* pow_2_3_series: the tests on base, then double x = base
Enter_series(b) ==
    /\ pc = "idle"
    /\ base0' = b
    /\ UNCHANGED <<fn, threadVars, errVars, exp0, loopVars, hierVars,
                   memoVars, s_n, s_a, s_z, s_sum, s_term, s_k, s_ops>>
    /\ IF b = FZero
       THEN /\ ret' = FZero
            /\ pc' = "done"
            /\ UNCHANGED s_x
       ELSE IF FLess(b, FZero)
       THEN /\ ret' = FNaN
            /\ pc' = "done"
            /\ UNCHANGED s_x
       ELSE /\ s_x' = b
            /\ pc' = "root"
            /\ UNCHANGED ret

\* pow_2_3_series(T base)
Call_pow_2_3_series ==
    /\ fn = "pow_2_3_series"
    /\ \E b \in FracBases : Enter_series(b)

\* pow_2_3_series_float(float base)
Call_pow_2_3_series_float ==
    /\ fn = "pow_2_3_series_float"
    /\ \E b \in FracBases : Enter_series(b)

\* n and a without the a == 0 fallback
SeriesRoot_no_fallback ==
    /\ pc = "root"
    /\ LET n == FInt(RoundCbrt(s_x, 0))
           n_squared == FTimes(n, n)
           a == FTimes(n_squared, n)
       IN  /\ s_n' = n
           /\ s_a' = a
    /\ pc' = "divide"
    /\ s_ops' = s_ops + 1
    /\ UNCHANGED <<fn, threadVars, errVars, base0, exp0, loopVars, hierVars,
                   memoVars, ret, s_x, s_z, s_sum, s_term, s_k>>

\* n = std::round(::cbrt(x)), a = n * n * n, and the a == 0 fallback
SeriesRoot ==
    /\ pc = "root"
    /\ LET n == FInt(RoundCbrt(s_x, 0))
           n_squared == FTimes(n, n)
           a == FTimes(n_squared, n)
       IN  /\ s_n' = n
           /\ s_a' = a
           /\ IF a = FZero
              THEN /\ ret' = PowTwoThirds(s_x)
                   /\ pc' = "done"
              ELSE /\ pc' = "divide"
                   /\ UNCHANGED ret
    /\ s_ops' = s_ops + 1
    /\ UNCHANGED <<fn, threadVars, errVars, base0, exp0, loopVars, hierVars,
                   memoVars, s_x, s_z, s_sum, s_term, s_k>>

\* z = x / a - 1.0, sum = 1.0, term = 1.0, k = 1
SeriesDivide ==
    /\ pc = "divide"
    /\ s_z' = FSub(FDiv(s_x, s_a), FOne)
    /\ s_sum' = FOne
    /\ s_term' = FOne
    /\ s_k' = 1
    /\ s_ops' = s_ops + 1
    /\ pc' = "series"
    /\ UNCHANGED <<fn, threadVars, errVars, base0, exp0, loopVars, hierVars,
                   memoVars, ret, s_x, s_n, s_a>>

\* the loop with a convergence test: it stops once a term is zero
SeriesStep_until_converged ==
    /\ pc = "series"
    /\ IF s_k < num_terms /\ s_term # FZero
       THEN /\ s_term' = FTimes(s_term, SeriesFactor(s_k, s_z))
            /\ s_sum' = FAdd(s_sum, s_term')
            /\ s_k' = s_k + 1
            /\ s_ops' = s_ops + 1
            /\ UNCHANGED <<pc, ret>>
       ELSE /\ ret' = FTimes(FTimes(s_n, s_n), s_sum)
            /\ pc' = "done"
            /\ UNCHANGED <<s_term, s_sum, s_k, s_ops>>
    /\ UNCHANGED <<fn, threadVars, errVars, base0, exp0, loopVars, hierVars,
                   memoVars, s_x, s_n, s_a, s_z>>

\* one evaluation of k < num_terms: the body when it holds, the return
\* of n_squared * sum when it does not
SeriesStep ==
    /\ pc = "series"
    /\ IF s_k < num_terms
       THEN /\ s_term' = FTimes(s_term, SeriesFactor(s_k, s_z))
            /\ s_sum' = FAdd(s_sum, s_term')
            /\ s_k' = s_k + 1
            /\ s_ops' = s_ops + 1
            /\ UNCHANGED <<pc, ret>>
       ELSE /\ ret' = FTimes(FTimes(s_n, s_n), s_sum)
            /\ pc' = "done"
            /\ UNCHANGED <<s_term, s_sum, s_k, s_ops>>
    /\ UNCHANGED <<fn, threadVars, errVars, base0, exp0, loopVars, hierVars,
                   memoVars, s_x, s_n, s_a, s_z>>

\* reference and candidate values handed to compute_error: the special
\* values, m/d for m in -MaxErrNum .. MaxErrNum and d in {1, 2}, and the
\* documented pair 100.0, 99.9
MaxErrNum == 2

ErrValues ==
    {FNaN, FInf, FNegInf, FInt(100), <<999, 10>>}
        \cup { FNorm(m, d) : m \in (0 - MaxErrNum) .. MaxErrNum, d \in {1, 2} }

\* compute_error(reference, value)
Call_compute_error ==
    /\ fn = "compute_error"
    /\ pc = "idle"
    /\ \E reference \in ErrValues, value \in ErrValues :
           /\ err_ref' = reference
           /\ err_val' = value
           /\ err' = compute_error(reference, value)
    /\ pc' = "done"
    /\ UNCHANGED <<fn, threadVars, seriesVars, base0, exp0, loopVars,
                   hierVars, ret, memoVars>>

\* the caller takes the value; the call's locals are gone
Return ==
    /\ pc = "done"
    /\ pc' = "idle"
    /\ base0' = 0
    /\ exp0' = 0
    /\ result' = 0
    /\ current' = 0
    /\ exp' = 0
    /\ iters' = 0
    /\ mults' = 0
    /\ stack' = <<>>
    /\ depth' = 0
    /\ ret' = 0
    /\ s_x' = FZero
    /\ s_n' = FZero
    /\ s_a' = FZero
    /\ s_z' = FZero
    /\ s_sum' = FZero
    /\ s_term' = FZero
    /\ s_k' = 0
    /\ s_ops' = 0
    /\ err_ref' = FZero
    /\ err_val' = FZero
    /\ err' = NoError
    /\ UNCHANGED <<fn, threadVars, memoVars>>

---------------------------------------------------------------------------
(* Calls of the memoized kernels.  A call runs to completion; base0, exp0  *)
(* and ret keep the arguments and the value of the most recent call.       *)

\* the call (b, e) with outcome r: the value returned and the cache left
Memo(b, e, r) ==
    /\ pc = "idle"
    /\ ncalls < MaxCalls
    /\ base0' = b
    /\ exp0' = e
    /\ ret' = r.ret
    /\ cache' = r.cache
    /\ computed' = r.computed
    /\ ncalls' = ncalls + 1
    /\ UNCHANGED <<fn, threadVars, seriesVars, errVars, pc, loopVars, hierVars>>

Call_pow_cached_map ==
    /\ fn = "pow_cached_map"
    /\ UNCHANGED is_cached
    /\ \E b \in FloatBases, e \in CacheExps :
           Memo(b, e, pow_cached_map(cache, b, e))

Call_pow_cached_unordered_nested ==
    /\ fn = "pow_cached_unordered_nested"
    /\ UNCHANGED is_cached
    /\ \E b \in FloatBases, e \in CacheExps :
           Memo(b, e, pow_cached_unordered_nested(cache, b, e))

Call_pow_cached_unordered_pair ==
    /\ fn = "pow_cached_unordered_pair"
    /\ UNCHANGED is_cached
    /\ \E b \in FloatBases, e \in CacheExps :
           Memo(b, e, pow_cached_unordered_pair(cache, b, e))

\* what an out-of-bounds read of an optional may come back with
WildValues(f) == IF f = "pow_vec_cached_float" THEN {FZero, FOne} ELSE {0, 1}

\* the outcomes of a vector kernel call: r itself, and when the call read
\* out of bounds also a hit on whatever memory held
VecOutcomes(f, r) ==
    IF r.oob
    THEN {r} \cup { [r EXCEPT !.ret = v, !.computed = 0] : v \in WildValues(f) }
    ELSE {r}

Call_pow_cached_vector_optional_int ==
    /\ fn = "pow_cached_vector_optional_int"
    /\ UNCHANGED is_cached
    /\ \E b \in CacheIntBases, e \in VecExps :
       \E r \in VecOutcomes(fn, pow_cached_vector_optional_int(cache, b, e)) :
           Memo(b, e, r)

Call_pow_vec_cached_float ==
    /\ fn = "pow_vec_cached_float"
    /\ UNCHANGED is_cached
    /\ \E e \in VecExps :
       \E b \in (IF e \in CacheExps THEN FloatBases ELSE {FZero}) :
       \E r \in VecOutcomes(fn, pow_vec_cached_float(cache, b, e)) :
           Memo(b, e, r)

Call_pow_cached_static_array ==
    /\ fn = "pow_cached_static_array"
    /\ \E b \in CacheIntBases, e \in StaticExps :
           LET r == pow_cached_static_array(cache, is_cached, b, e)
           IN  /\ Memo(b, e, r)
               /\ is_cached' = r.is_cached

---------------------------------------------------------------------------
(* Concurrent calls of one memoized kernel.  The kernels take no lock, so  *)
(* a thread's lookup (find, or the resizes and has_value of the vector     *)
(* kernel) and its insertion (operator[] =) are cache accesses that begin  *)
(* and end with other threads' steps in between.  Two overlapping accesses *)
(* conflict when one of them writes what the other touches: a data race,   *)
(* after which what a lookup finds and whether an insertion lands is not   *)
(* defined.                                                                *)

\* the uncached computation memoized kernel f falls back to
Fallback(f, b, e) ==
    IF f \in MapKernels THEN StdPow(b, e)
    ELSE IF f = "pow_vec_cached_float" THEN pow_hierarchical_float(b, e)
    ELSE pow_hierarchical_int(b, e)

ThreadKernels == MapKernels \cup {"pow_cached_vector_optional_int"}

ThreadBases(f) ==
    IF f \in MapKernels THEN { b \in FloatBases : b[1] > 0 }
    ELSE 1 .. MaxCacheBase

\* (base, exp) has a stored value
Stored(f, c, b, e) ==
    IF f = "pow_cached_unordered_nested"
    THEN MapHas(c, b) /\ MapHas(c[b], e)
    ELSE IF f \in MapKernels
    THEN MapHas(c, <<b, e>>)
    ELSE b < Len(c) /\ e < Len(c[b + 1]) /\ c[b + 1][e + 1] # NullOpt

\* the stored value of (base, exp)
StoredValue(f, c, b, e) ==
    IF f = "pow_cached_unordered_nested" THEN c[b][e]
    ELSE IF f \in MapKernels THEN c[<<b, e>>]
    ELSE c[b + 1][e + 1][1]

\* the cache after the lookup of (base, exp): the vector kernel resizes
AfterLookup(f, c, b, e) ==
    IF f \in MapKernels THEN c ELSE VecGrow(c, b, e)

\* the cache after cache[...] = v
AfterInsert(f, c, b, e, v) ==
    IF f = "pow_cached_unordered_nested"
    THEN MapPut(c, b, MapPut(IF MapHas(c, b) THEN c[b] ELSE EmptyMap, e, v))
    ELSE IF f \in MapKernels
    THEN MapPut(c, <<b, e>>, v)
    ELSE [c EXCEPT ![b + 1][e + 1] = Some(v)]

\* what the lookup of (base, exp) does to the cache
LookupMode(f, c, b, e) ==
    IF f \in MapKernels THEN "read"
    ELSE IF b >= Len(c) THEN "resize_outer"
    ELSE IF e >= Len(c[b + 1]) THEN "resize_row"
    ELSE "read"

\* what the insertion does to the cache
InsertMode(f) == IF f \in MapKernels THEN "write_table" ELSE "write_element"

InAccess(t) == tpc[t] \in {"in_find", "in_insert"}

\* thread t, about to access the cache in mode m, races with thread u
Conflict(t, m, u) ==
    /\ u # t
    /\ InAccess(u)
    /\ LET bothRead == m = "read" /\ tmode[u] = "read"
           wholeTable == {m, tmode[u]} \cap {"write_table", "resize_outer"} # {}
           sameRow == targ[t][1] = targ[u][1]
           rowResized == "resize_row" \in {m, tmode[u]}
       IN  /\ ~bothRead
           /\ \/ wholeTable
              \/ sameRow /\ rowResized
              \/ targ[t] = targ[u]

\* values a lookup that raced may come back with
RaceValues(f) ==
    { Fallback(f, b, e) : b \in ThreadBases(f), e \in CacheExps }

\* a thread enters the kernel with (b, e)
T_Call(t) ==
    /\ fn \in ThreadKernels
    /\ tpc[t] = "idle"
    /\ ncalls < MaxCalls
    /\ \E b \in ThreadBases(fn), e \in CacheExps :
           /\ targ' = [targ EXCEPT ![t] = <<b, e>>]
           /\ tcold' = [tcold EXCEPT ![t] = ~Stored(fn, cache, b, e)]
    /\ tpc' = [tpc EXCEPT ![t] = "at_find"]
    /\ ncalls' = ncalls + 1
    /\ UNCHANGED <<fn, seriesVars, errVars, pc, base0, exp0, loopVars, hierVars, ret, cache,
                   is_cached, computed, tmode, tres, tret, corrupt>>

\* the lookup starts reading (and, in the vector kernel, resizing)
T_BeginFind(t) ==
    /\ tpc[t] = "at_find"
    /\ LET m == LookupMode(fn, cache, targ[t][1], targ[t][2])
       IN  /\ tmode' = [tmode EXCEPT ![t] = m]
           /\ corrupt' = (corrupt \/ \E u \in Threads : Conflict(t, m, u))
    /\ tpc' = [tpc EXCEPT ![t] = "in_find"]
    /\ UNCHANGED <<fn, seriesVars, errVars, pc, base0, exp0, loopVars, hierVars, ret, cache,
                   is_cached, ncalls, computed, targ, tcold, tres, tret>>

\* the lookup ends: a hit returns the stored value, a miss goes on to compute
T_EndFind(t) ==
    /\ tpc[t] = "in_find"
    /\ LET b == targ[t][1]
           e == targ[t][2]
           c == AfterLookup(fn, cache, b, e)
       IN  /\ cache' = c
           /\ \E hit \in (IF corrupt THEN BOOLEAN ELSE {Stored(fn, c, b, e)}) :
              \E v \in (IF corrupt THEN RaceValues(fn)
                        ELSE IF hit THEN {StoredValue(fn, c, b, e)} ELSE {0}) :
                  IF hit
                  THEN /\ tret' = [tret EXCEPT ![t] = v]
                       /\ tpc' = [tpc EXCEPT ![t] = "done"]
                  ELSE /\ tret' = tret
                       /\ tpc' = [tpc EXCEPT ![t] = "at_compute"]
    /\ tmode' = [tmode EXCEPT ![t] = "none"]
    /\ UNCHANGED <<fn, seriesVars, errVars, pc, base0, exp0, loopVars, hierVars, ret,
                   is_cached, ncalls, computed, targ, tcold, tres, corrupt>>

\* result = fallback(base, exp), touching no shared state
T_Compute(t) ==
    /\ tpc[t] = "at_compute"
    /\ tres' = [tres EXCEPT ![t] = Fallback(fn, targ[t][1], targ[t][2])]
    /\ tpc' = [tpc EXCEPT ![t] = "at_insert"]
    /\ UNCHANGED <<fn, seriesVars, errVars, pc, base0, exp0, loopVars, hierVars, ret, cache,
                   is_cached, ncalls, computed, targ, tcold, tmode, tret,
                   corrupt>>

\* cache[...] = result starts writing
T_BeginInsert(t) ==
    /\ tpc[t] = "at_insert"
    /\ LET m == InsertMode(fn)
       IN  /\ tmode' = [tmode EXCEPT ![t] = m]
           /\ corrupt' = (corrupt \/ \E u \in Threads : Conflict(t, m, u))
    /\ tpc' = [tpc EXCEPT ![t] = "in_insert"]
    /\ UNCHANGED <<fn, seriesVars, errVars, pc, base0, exp0, loopVars, hierVars, ret, cache,
                   is_cached, ncalls, computed, targ, tcold, tres, tret>>

\* the write ends and the call returns result
T_EndInsert(t) ==
    /\ tpc[t] = "in_insert"
    /\ LET c == AfterInsert(fn, cache, targ[t][1], targ[t][2], tres[t])
       IN  cache' \in (IF corrupt THEN {c, cache} ELSE {c})
    /\ tret' = [tret EXCEPT ![t] = tres[t]]
    /\ tpc' = [tpc EXCEPT ![t] = "done"]
    /\ tmode' = [tmode EXCEPT ![t] = "none"]
    /\ UNCHANGED <<fn, seriesVars, errVars, pc, base0, exp0, loopVars, hierVars, ret,
                   is_cached, ncalls, computed, targ, tcold, tres, corrupt>>

\* the caller takes the value; the thread may call again
T_Return(t) ==
    /\ tpc[t] = "done"
    /\ tpc' = [tpc EXCEPT ![t] = "idle"]
    /\ targ' = [targ EXCEPT ![t] = <<0, 0>>]
    /\ tcold' = [tcold EXCEPT ![t] = FALSE]
    /\ tres' = [tres EXCEPT ![t] = 0]
    /\ tret' = [tret EXCEPT ![t] = 0]
    /\ UNCHANGED <<fn, seriesVars, errVars, pc, base0, exp0, loopVars, hierVars, ret, cache,
                   is_cached, ncalls, computed, tmode, corrupt>>

InitThreads ==
    /\ Init
    /\ fn \in ThreadKernels

NextThreads ==
    \E t \in Threads :
        \/ T_Call(t)
        \/ T_BeginFind(t)
        \/ T_EndFind(t)
        \/ T_Compute(t)
        \/ T_BeginInsert(t)
        \/ T_EndInsert(t)
        \/ T_Return(t)

SpecThreads == InitThreads /\ [][NextThreads]_vars

---------------------------------------------------------------------------
(* Concurrent calls of pow_cached_static_array, one statement at a time:   *)
(* the range test, the read of the flag, the return of the cached value,   *)
(* the computation, the store of the value, the store of the flag and the  *)
(* return are each one step of a thread, with other threads' steps in      *)
(* between.                                                                *)

\* bases and exponents the threads call with: two cacheable bases, and one
\* base and one exponent outside the cacheable range
StaticThreadBases == {2, 3, MAX_BASE}

StaticThreadExps == {0, 2, MAX_EXP}

\* what the thread actions of this kernel leave alone
staticFrame ==
    <<fn, seriesVars, errVars, pc, base0, exp0, loopVars, hierVars, ret,
      computed, tcold, tmode, corrupt>>

\* the miss path with the flag stored ahead of the value
StaticNextPc_flag_first(p) ==
    IF p = "at_flag" THEN "at_compute"
    ELSE IF p = "at_compute" THEN "at_set"
    ELSE IF p = "at_set" THEN "at_write"
    ELSE "at_return"

\* the statement after statement p on the miss path: result = ...,
\* cache[base][exp] = result, is_cached[base][exp] = true, return result
StaticNextPc(p) ==
    IF p = "at_flag" THEN "at_compute"
    ELSE IF p = "at_compute" THEN "at_write"
    ELSE IF p = "at_write" THEN "at_set"
    ELSE "at_return"

\* a thread enters pow_cached_static_array with (b, e)
S_Call(t) ==
    /\ fn = "pow_cached_static_array"
    /\ tpc[t] = "idle"
    /\ ncalls < MaxCalls
    /\ \E b \in StaticThreadBases, e \in StaticThreadExps :
           targ' = [targ EXCEPT ![t] = <<b, e>>]
    /\ tpc' = [tpc EXCEPT ![t] = "at_range"]
    /\ ncalls' = ncalls + 1
    /\ UNCHANGED <<staticFrame, cache, is_cached, tres, tret>>

\* if (base >= 0 && static_cast<size_t>(base) < MAX_BASE && exp < MAX_EXP)
S_RangeTest(t) ==
    /\ tpc[t] = "at_range"
    /\ LET b == targ[t][1]
           e == targ[t][2]
       IN  tpc' = [tpc EXCEPT ![t] =
                     IF Signed(b) >= 0 /\ b < MAX_BASE /\ e < MAX_EXP
                     THEN "at_flag" ELSE "at_bypass"]
    /\ UNCHANGED <<staticFrame, cache, is_cached, ncalls, targ, tres, tret>>

\* if (is_cached[base][exp])
S_TestFlag(t) ==
    /\ tpc[t] = "at_flag"
    /\ tpc' = [tpc EXCEPT ![t] =
                 IF is_cached[targ[t][1]][targ[t][2]]
                 THEN "at_hit" ELSE StaticNextPc("at_flag")]
    /\ UNCHANGED <<staticFrame, cache, is_cached, ncalls, targ, tres, tret>>

\* return cache[base][exp]
S_ReturnCached(t) ==
    /\ tpc[t] = "at_hit"
    /\ tret' = [tret EXCEPT ![t] = cache[targ[t][1]][targ[t][2]]]
    /\ tpc' = [tpc EXCEPT ![t] = "done"]
    /\ UNCHANGED <<staticFrame, cache, is_cached, ncalls, targ, tres>>

\* IntType result = pow_hierarchical_int(base, exp)
S_Compute(t) ==
    /\ tpc[t] = "at_compute"
    /\ tres' = [tres EXCEPT ![t] = pow_hierarchical_int(targ[t][1], targ[t][2])]
    /\ tpc' = [tpc EXCEPT ![t] = StaticNextPc("at_compute")]
    /\ UNCHANGED <<staticFrame, cache, is_cached, ncalls, targ, tret>>

\* cache[base][exp] = result
S_WriteValue(t) ==
    /\ tpc[t] = "at_write"
    /\ cache' = [cache EXCEPT ![targ[t][1]][targ[t][2]] = tres[t]]
    /\ tpc' = [tpc EXCEPT ![t] = StaticNextPc("at_write")]
    /\ UNCHANGED <<staticFrame, is_cached, ncalls, targ, tres, tret>>

\* is_cached[base][exp] = true
S_SetFlag(t) ==
    /\ tpc[t] = "at_set"
    /\ is_cached' = [is_cached EXCEPT ![targ[t][1]][targ[t][2]] = TRUE]
    /\ tpc' = [tpc EXCEPT ![t] = StaticNextPc("at_set")]
    /\ UNCHANGED <<staticFrame, cache, ncalls, targ, tres, tret>>

\* return result
S_ReturnResult(t) ==
    /\ tpc[t] = "at_return"
    /\ tret' = [tret EXCEPT ![t] = tres[t]]
    /\ tpc' = [tpc EXCEPT ![t] = "done"]
    /\ UNCHANGED <<staticFrame, cache, is_cached, ncalls, targ, tres>>

\* return pow_hierarchical_int(base, exp), outside the cacheable range
S_Bypass(t) ==
    /\ tpc[t] = "at_bypass"
    /\ tret' = [tret EXCEPT ![t] = pow_hierarchical_int(targ[t][1], targ[t][2])]
    /\ tpc' = [tpc EXCEPT ![t] = "done"]
    /\ UNCHANGED <<staticFrame, cache, is_cached, ncalls, targ, tres>>

InitStatic ==
    /\ Init
    /\ fn = "pow_cached_static_array"

NextStatic ==
    \E t \in Threads :
        \/ S_Call(t)
        \/ S_RangeTest(t)
        \/ S_TestFlag(t)
        \/ S_ReturnCached(t)
        \/ S_Compute(t)
        \/ S_WriteValue(t)
        \/ S_SetFlag(t)
        \/ S_ReturnResult(t)
        \/ S_Bypass(t)
        \/ T_Return(t)

SpecStatic == InitStatic /\ [][NextStatic]_vars

Next ==
    \/ Call_pow_2_3_cbrt
    \/ Call_pow_2_3_exp_log
    \/ Call_pow_2_3_series
    \/ Call_pow_2_3_series_float
    \/ SeriesRoot
    \/ SeriesDivide
    \/ SeriesStep
    \/ Call_compute_error
    \/ Call_pow_fast_int
    \/ Call_pow_binary
    \/ LoopStep
    \/ Call_pow_hierarchical_int
    \/ Call_pow_hierarchical
    \/ Descend
    \/ Unwind
    \/ Call_pow_ultra_fast
    \/ Call_pow_ultra_fast_T
    \/ Return
    \/ Call_pow_cached_map
    \/ Call_pow_cached_unordered_nested
    \/ Call_pow_cached_unordered_pair
    \/ Call_pow_cached_vector_optional_int
    \/ Call_pow_vec_cached_float
    \/ Call_pow_cached_static_array

Spec == Init /\ [][Next]_vars

---------------------------------------------------------------------------
(* Reference functions and state functions used by the properties.         *)

\* base^exp modulo 2^IntBits, by exp successive multiplications
RECURSIVE RefPow(_, _)
RefPow(b, e) == IF e = 0 THEN 1 ELSE (b * RefPow(b, e - 1)) % Modulus

\* base^exp as an unbounded integer while it stays below 2^IntBits, and
\* 2^IntBits once it does not
RECURSIVE ExactPow(_, _)
ExactPow(b, e) ==
    IF e = 0 THEN 1
    ELSE LET p == ExactPow(b, e - 1)
         IN  IF p >= Modulus \/ b * p >= Modulus THEN Modulus ELSE b * p

\* smallest k with 2^k >= n, for n >= 1
RECURSIVE CeilLog2(_)
CeilLog2(n) == IF n <= 1 THEN 0 ELSE 1 + CeilLog2((n + 1) \div 2)

\* the value 1 in the result type of kernel f
One(f) ==
    IF f \in MapKernels \cup {"pow_vec_cached_float"} THEN FOne ELSE 1

\* (b, e) is in the domain of memoized kernel f: the accesses to
\* cache[b][exp] of a vector kernel stay in bounds
InDomain(f, b, e) == ~(f \in VectorKernels /\ ExpPlus1(e) = 0)

\* the (base, exponent) slots of cache c (and flags) that hold a value
KeysOf(f, c, flags) ==
    IF f \in {"pow_cached_map", "pow_cached_unordered_pair"}
    THEN DOMAIN c
    ELSE IF f = "pow_cached_unordered_nested"
    THEN UNION { { <<b, e>> : e \in DOMAIN c[b] } : b \in DOMAIN c }
    ELSE IF f \in VectorKernels
    THEN UNION { { <<i - 1, j - 1>> :
                     j \in { k \in 1 .. Len(c[i]) : c[i][k] # NullOpt } } :
                 i \in 1 .. Len(c) }
    ELSE IF f = "pow_cached_static_array"
    THEN { <<b, e>> \in (0 .. (MAX_BASE - 1)) \X (0 .. (MAX_EXP - 1)) :
             flags[b][e] }
    ELSE {}

\* the (base, exponent) slots of the cache that hold a value
StoredKeys == KeysOf(fn, cache, is_cached)

\* the value cache c holds in slot k
ValueAt(f, c, k) ==
    IF f \in {"pow_cached_map", "pow_cached_unordered_pair"} THEN c[k]
    ELSE IF f = "pow_cached_unordered_nested" THEN c[k[1]][k[2]]
    ELSE IF f \in VectorKernels THEN c[k[1] + 1][k[2] + 1][1]
    ELSE c[k[1]][k[2]]

\* the slot a call with (b, e) looks up and fills
SlotOf(f, b, e) ==
    IF f = "pow_vec_cached_float" THEN <<FloatIndex(b), e>> ELSE <<b, e>>

\* the call with (b, e) goes through the cache rather than past it
Cacheable(f, b, e) ==
    IF f = "pow_cached_static_array"
    THEN Signed(b) >= 0 /\ b < MAX_BASE /\ e < MAX_EXP
    ELSE IF f = "pow_cached_vector_optional_int" THEN Signed(b) >= 0
    ELSE TRUE

KeyCount == Cardinality(StoredKeys)

\* the kernels the model instantiates over an integer result type
IntKernels ==
    PureKernels \cup {"pow_cached_vector_optional_int", "pow_cached_static_array"}

\* v, a value of kernel f's result type, is the not-a-number sentinel
IsNaN(f, v) == IF f \in IntKernels THEN FALSE ELSE v = FNaN

\* a kernel call has returned and its value is in ret
Returned ==
    \/ fn \in PureKernels /\ pc = "done"
    \/ fn \in MemoKernels /\ ncalls > 0

---------------------------------------------------------------------------
(* Properties.                                                             *)

\* C1: for every base and every exponent e >= 0 that both functions accept,
\* pow_fast_int(b, e) returns the same bits as pow_hierarchical_int(b, e).
C1_FastIntEqualsHierarchical ==
    (fn = "pow_fast_int" /\ pc = "done" /\ exp0 >= 0)
        => ret = pow_hierarchical_int(base0, exp0)

\* pow_fast_int has returned from its loop on a power that wrapped around
C1_Witness ==
    /\ fn = "pow_fast_int"
    /\ pc = "done"
    /\ base0 = 3
    /\ exp0 = 13
    /\ iters = 4
    /\ ret = pow_hierarchical_int(3, 13)
    /\ ExactPow(3, 13) = Modulus

\* C2: pow_ultra_fast returns the same bits as plain binary exponentiation
\* (pow_fast_int / pow_binary) for every base and every exponent value of
\* the exponent type.
C2_UltraFastEqualsBinary ==
    (fn \in {"pow_fast_int", "pow_binary"} /\ pc = "done")
        => ret = pow_ultra_fast(base0, exp0)

\* C3: whatever calls came before, a memoized kernel called with (b, e)
\* returns the value its uncached fallback computes for (b, e).
C3_CachedEqualsUncached ==
    (fn \in MemoKernels /\ ncalls > 0) => ret = Fallback(fn, base0, exp0)

\* C4: when several threads call one memoized kernel, no two threads are
\* ever inside an access to the cache table (a lookup or an insertion) at
\* the same time, and a thread computing the power is inside no access.
C4_CacheAccessSerialized ==
    fn \in ThreadKernels =>
        /\ \A t, u \in Threads : (InAccess(t) /\ InAccess(u)) => t = u
        /\ \A t \in Threads : tpc[t] = "at_compute" => ~InAccess(t)

\* C5: when two threads have called the kernel with the same key, stored
\* for neither of them when its call began, and both calls have returned,
\* both returned the fallback's value, the cache holds that value for the
\* key, and the cache was never left undefined by conflicting accesses.
C5_ConcurrentMissesSafe ==
    \A t, u \in Threads :
        (/\ fn \in ThreadKernels
         /\ t # u
         /\ tpc[t] = "done" /\ tpc[u] = "done"
         /\ targ[t] = targ[u]
         /\ tcold[t] /\ tcold[u])
        => /\ tret[t] = Fallback(fn, targ[t][1], targ[t][2])
           /\ tret[u] = Fallback(fn, targ[t][1], targ[t][2])
           /\ Stored(fn, cache, targ[t][1], targ[t][2])
           /\ StoredValue(fn, cache, targ[t][1], targ[t][2])
                  = Fallback(fn, targ[t][1], targ[t][2])
           /\ ~corrupt

\* C6: a memoized kernel called twice in a row with the same (b, e) returns
\* the same value both times, and the second call stores no new key.
C6_RepeatedCallIdempotent ==
    [][(/\ fn \in MemoKernels
        /\ ncalls >= 1
        /\ ncalls' = ncalls + 1
        /\ base0' = base0
        /\ exp0' = exp0
        /\ InDomain(fn, base0, exp0))
          => (ret' = ret /\ KeyCount' = KeyCount)]_vars

\* two calls were made, one key is stored and the second call was a hit:
\* the second call repeated the first
C6_Witness ==
    /\ fn = "pow_cached_static_array"
    /\ ncalls = 2
    /\ computed = 0
    /\ KeyCount = 1
    /\ base0 = 2
    /\ exp0 = 2
    /\ ret = 4

\* C7: the divide-and-conquer kernels reach a base case for every exponent
\* they accept, after at most ceil(log2(exponent)) recursive calls (never
\* more than the width of the exponent type).
C7_RecursionDepthBounded ==
    (fn \in {"pow_hierarchical_int", "pow_hierarchical"})
        => depth <= (IF exp0 >= 1 THEN CeilLog2(exp0) ELSE ExpBits)

\* C8: every kernel returns 1 for exponent 0, whatever the base (0 included)
\* and, for a memoized kernel, whatever the cache holds.
C8_ExponentZeroIsOne ==
    (Returned /\ exp0 = 0) => ret = One(fn)

\* a memoized kernel answers 0^0 from a warm cache
C8_Witness ==
    /\ fn = "pow_cached_static_array"
    /\ ncalls >= 2
    /\ computed = 0
    /\ base0 = 0
    /\ exp0 = 0
    /\ ret = 1

\* C9: every kernel returns the base unchanged for exponent 1, for a
\* memoized kernel after any sequence of earlier calls.
C9_ExponentOneIsBase ==
    (Returned /\ exp0 = 1) => ret = base0

\* C10: for every exponent e >= 0, pow_fast_int and pow_hierarchical_int
\* return base^e modulo 2^w, which is base^e itself whenever that fits.
C10_PowerModuloWidth ==
    (fn \in {"pow_fast_int", "pow_hierarchical_int"} /\ pc = "done" /\ exp0 >= 0)
        => /\ ret = RefPow(base0, exp0)
           /\ ExactPow(base0, exp0) < Modulus => ret = ExactPow(base0, exp0)

\* binary_pow(2, 10) == 1024
C10_Witness ==
    /\ fn = "pow_fast_int"
    /\ pc = "done"
    /\ base0 = 2
    /\ exp0 = 10
    /\ ret = 1024

\* C11: a call of pow_fast_int, pow_binary, pow_ultra_fast or pow_hierarchical
\* (signed exponent type) with a negative exponent returns, and the value
\* it returns is the not-a-number sentinel.
C11_NegativeExponentIsNaN ==
    (/\ fn \in {"pow_fast_int", "pow_binary", "pow_ultra_fast_T",
                "pow_hierarchical"}
     /\ exp0 < 0)
    => /\ depth <= ExpBits
       /\ pc = "done" => IsNaN(fn, ret)

\* C12: for every negative base, pow_2_3_cbrt, pow_2_3_exp_log and
\* pow_2_3_series return the not-a-number sentinel.
C12_NegativeBaseIsNaN ==
    (/\ fn \in {"pow_2_3_cbrt", "pow_2_3_exp_log", "pow_2_3_series"}
     /\ pc = "done"
     /\ FLess(base0, FZero))
    => ret = FNaN

\* C13: pow_2_3_series and pow_2_3_series_float return 0 for base = 0 and
\* NaN for every base < 0, and have then run no cube root, no division and
\* no series step.
C13_SeriesEarlyReturns ==
    (/\ fn \in SeriesKernels
     /\ pc = "done"
     /\ ~FLess(FZero, base0))
    => /\ s_ops = 0
       /\ ret = (IF base0 = FZero THEN FZero ELSE FNaN)

C13_Witness ==
    /\ fn = "pow_2_3_series_float"
    /\ pc = "done"
    /\ base0 = FInt(0 - 8)
    /\ ret = FNaN
    /\ s_ops = 0

C15_SelfErrorIsZero ==
    (fn = "compute_error" /\ pc = "done" /\ err_val = err_ref)
    => err = [abs_err |-> FZero, rel_err |-> FZero]

\* C16 as stated: when the candidate value is NaN, abs_err and rel_err are
\* both NaN for every reference value.
C16_NaNCandidateAllNaN ==
    (fn = "compute_error" /\ pc = "done" /\ FIsNaN(err_val))
    => /\ FIsNaN(err.abs_err)
       /\ FIsNaN(err.rel_err)

\* C16: when the candidate value is NaN, abs_err is NaN for every reference
\* value; rel_err is NaN for every reference value other than 0, and is 0
\* when the reference is 0.
C16_NaNCandidatePropagates ==
    (fn = "compute_error" /\ pc = "done" /\ FIsNaN(err_val))
    => /\ FIsNaN(err.abs_err)
       /\ err_ref # FZero => FIsNaN(err.rel_err)
       /\ err_ref = FZero => err.rel_err = FZero

C16_Witness ==
    /\ fn = "compute_error"
    /\ pc = "done"
    /\ err_ref = FZero
    /\ FIsNaN(err_val)
    /\ FIsNaN(err.abs_err)
    /\ err.rel_err = FZero

\* a positive perfect cube n^3 with n >= 1
IsPositiveCube(b) == b[2] = 1 /\ b[1] >= 1 /\ IsCube(b[1])

\* C20: for a base that is a positive perfect cube n^3, pow_2_3_series
\* picks that n, computes z = 0, every correction term is 0 and the sum
\* stays 1, and the value returned is exactly n^2.
C20_PerfectCubeExact ==
    (/\ fn = "pow_2_3_series"
     /\ pc \in {"series", "done"}
     /\ IsPositiveCube(base0))
    => LET n == CubeRootFloor(base0[1], 0)
       IN  /\ s_n = FInt(n)
           /\ s_z = FZero
           /\ s_k > 1 => s_term = FZero
           /\ s_sum = FOne
           /\ pc = "done" => (s_k = num_terms /\ ret = FInt(n * n))

C20_Witness ==
    /\ fn = "pow_2_3_series"
    /\ pc = "done"
    /\ base0 = FInt(27)
    /\ s_n = FInt(3)
    /\ s_z = FZero
    /\ s_term = FZero
    /\ ret = FInt(9)

\* C17: the cache is keyed by the exact (base, exponent) pair.  When the
\* first two calls of a run have different pairs (both indexing in
\* bounds), the second does not read the first one's entry (it runs the
\* fallback) and does not change the value of a stored entry.
C17_ExactKey ==
    [][(/\ fn \in MemoKernels
        /\ ncalls = 1
        /\ ncalls' = 2
        /\ <<base0', exp0'>> # <<base0, exp0>>
        /\ InDomain(fn, base0, exp0)
        /\ InDomain(fn, base0', exp0'))
          => (/\ computed' = 1
              /\ \A k \in StoredKeys \cap KeysOf(fn, cache', is_cached') :
                     ValueAt(fn, cache', k) = ValueAt(fn, cache, k))]_vars

\* C18: no step of a memoized kernel removes a stored entry or changes its
\* value, so the number of stored keys never decreases.
C18_NoEviction ==
    [][(fn \in MemoKernels)
          => (/\ \A k \in StoredKeys :
                     /\ k \in KeysOf(fn, cache', is_cached')
                     /\ ValueAt(fn, cache', k) = ValueAt(fn, cache, k)
              /\ Cardinality(KeysOf(fn, cache', is_cached')) >= KeyCount)]_vars

\* C19: a call whose slot holds a value returns that value, runs no
\* fallback and leaves the cache as it was; a call whose slot holds none
\* runs the fallback once and leaves the returned value in the slot.
C19_HitMissEffects ==
    [][(/\ fn \in MemoKernels
        /\ ncalls' = ncalls + 1
        /\ Cacheable(fn, base0', exp0'))
          => (IF SlotOf(fn, base0', exp0') \in StoredKeys
              THEN /\ computed' = 0
                   /\ ret' = ValueAt(fn, cache, SlotOf(fn, base0', exp0'))
                   /\ cache' = cache
                   /\ is_cached' = is_cached
              ELSE /\ computed' = 1
                   /\ SlotOf(fn, base0', exp0') \in KeysOf(fn, cache', is_cached')
                   /\ ValueAt(fn, cache', SlotOf(fn, base0', exp0')) = ret')]_vars

\* the k-th term of the binomial series of (1 + z)^(2/3):
\* term_0 = 1, term_k = term_{k-1} * (2/3 - k + 1) / k * z
RECURSIVE BinomialTerm(_, _)
BinomialTerm(k, z) ==
    IF k = 0 THEN FOne
    ELSE FTimes(FTimes(BinomialTerm(k - 1, z), FRatio(2 - 3 * (k - 1), 3 * k)),
                z)

\* term_0 + ... + term_k
RECURSIVE BinomialSum(_, _)
BinomialSum(k, z) ==
    IF k = 0 THEN FOne
    ELSE FAdd(BinomialSum(k - 1, z), BinomialTerm(k, z))

C22_SeriesSevenTerms ==
    (fn \in SeriesKernels /\ pc = "done" /\ s_k >= 1) => s_k = 7

\* C23: in the vector-of-vectors integer kernel, for every base >= 0 and
\* every exponent of the exponent type, the element cache[b][exp] the call
\* reads and writes exists: after the resizes b < cache.size() and
\* exp < cache[b].size().
C23_VectorIndexInBounds ==
    [][(/\ fn = "pow_cached_vector_optional_int"
        /\ ncalls' = ncalls + 1
        /\ Signed(base0') >= 0)
          => (/\ base0' < Len(cache')
              /\ exp0' < Len(cache'[base0' + 1]))]_vars

\* the kernels that run the binary exponentiation loop
BinaryKernels == {"pow_fast_int", "pow_binary"}

\* C24: in the loop of pow_fast_int / pow_binary, at every evaluation of
\* the loop condition result * current^exp = base0^exp0 modulo 2^IntBits;
\* when the loop has been left exp = 0 and result, the value returned, is
\* base0^exp0.
C24_LoopInvariant ==
    /\ (fn \in BinaryKernels /\ pc = "loop")
         => Mul(result, RefPow(current, exp)) = RefPow(base0, exp0)
    /\ (fn \in BinaryKernels /\ pc = "done" /\ iters > 0)
         => /\ exp = 0
            /\ ret = result
            /\ result = RefPow(base0, exp0)

\* pow_fast_int(3, 5) after its first iteration: 3 * 9^2 = 3^5
C24_Witness ==
    /\ fn = "pow_fast_int"
    /\ pc = "loop"
    /\ base0 = 3
    /\ exp0 = 5
    /\ iters = 1
    /\ result = 3
    /\ current = 9
    /\ exp = 2

\* v is a value of the signed type T
InRange(v) == 0 - (Modulus \div 2) <= v /\ v <= Modulus \div 2 - 1

\* b^e as an unbounded integer while every power up to it is a value of
\* T, and Modulus (no value of T) once one is not
RECURSIVE SignedPow(_, _)
SignedPow(b, e) ==
    IF e = 0 THEN 1
    ELSE LET p == SignedPow(b, e - 1)
         IN  IF p = Modulus \/ ~InRange(b * p) THEN Modulus ELSE b * p

\* C26: when base0^exp0 is a value of T, the products the next loop
\* iteration computes, current * current and (for an odd exp)
\* result * current, are values of T.
C26_NoIntermediateOverflow ==
    (/\ fn \in BinaryKernels
     /\ pc = "loop"
     /\ exp > 0
     /\ SignedPow(Signed(base0), exp0) # Modulus)
    => /\ InRange(Signed(current) * Signed(current))
       /\ Odd(exp) => InRange(Signed(result) * Signed(current))

\* C29: pow_fast_int and pow_binary called with a negative exponent are
\* at their return with the value 0, having run no loop iteration and no
\* multiplication, whatever the base.
C29_NegativeExponentReturnsZero ==
    (fn \in BinaryKernels /\ exp0 < 0)
    => /\ pc = "done"
       /\ ret = 0
       /\ iters = 0
       /\ mults = 0

\* pow_fast_int(2, -1) returned 0
C29_Witness ==
    /\ fn = "pow_fast_int"
    /\ pc = "done"
    /\ base0 = 2
    /\ exp0 = 0 - 1
    /\ ret = 0
    /\ iters = 0

\* the number of binary digits of n
RECURSIVE BitLength(_)
BitLength(n) == IF n = 0 THEN 0 ELSE 1 + BitLength(n \div 2)

\* C30: for an exponent e >= 2, every iteration of the loop removes one
\* binary digit of exp, the loop is left after exactly bitlength(e)
\* iterations with exp = 0, and the call has then performed at most
\* 2 * bitlength(e) multiplications.
C30_LoopIterationCount ==
    (fn \in BinaryKernels /\ exp0 >= 2)
    => /\ pc \in {"loop", "done"}
       /\ iters + BitLength(exp) = BitLength(exp0)
       /\ mults <= 2 * iters
       /\ pc = "done"
            => /\ exp = 0
               /\ iters = BitLength(exp0)
               /\ mults <= 2 * BitLength(exp0)

\* pow_fast_int(2, 7) returned after 3 iterations and 6 multiplications
C30_Witness ==
    /\ fn = "pow_fast_int"
    /\ pc = "done"
    /\ base0 = 2
    /\ exp0 = 7
    /\ iters = 3
    /\ mults = 6
    /\ ret = 128

\* C27: the series kernels reach the division z = x / a - 1 only with
\* a # 0; called with a positive base whose cube root rounds to 0 they
\* return pow(x, 2/3) after the cube root, with no division and no series
\* step.
C27_NoDivisionByZero ==
    fn \in SeriesKernels
    => /\ (pc = "divide" \/ s_k >= 1) => s_a # FZero
       /\ (pc = "done" /\ FLess(FZero, base0) /\ RoundCbrt(base0, 0) = 0)
            => /\ ret = PowTwoThirds(base0)
               /\ s_ops = 1
               /\ s_k = 0

\* pow_2_3_series(1/16): the cube root rounds to 0, a = 0, the fallback
\* value is the cube root of 1/256
C27_Witness ==
    /\ fn = "pow_2_3_series"
    /\ pc = "done"
    /\ base0 = <<1, 16>>
    /\ s_n = FZero
    /\ s_a = FZero
    /\ s_ops = 1
    /\ ret = <<1, 256, 3>>

\* the kernels with a test that sends a call past the cache
BypassKernels == {"pow_cached_static_array", "pow_cached_vector_optional_int"}

\* C28: a call of pow_cached_static_array with base < 0, base >= MAX_BASE
\* or exp >= MAX_EXP, and a call of pow_cached_vector_optional_int with
\* base < 0, returns pow_hierarchical_int(base, exp) and leaves the cache
\* and the flags as they were; the static-array cache holds entries at
\* indices below MAX_BASE and MAX_EXP only, MAX_BASE x MAX_EXP at most.
C28_OutOfRangeBypassesCache ==
    [][(fn \in BypassKernels /\ ncalls' = ncalls + 1)
          => (/\ ~Cacheable(fn, base0', exp0')
                   => /\ ret' = pow_hierarchical_int(base0', exp0')
                      /\ computed' = 1
                      /\ cache' = cache
                      /\ is_cached' = is_cached
              /\ fn = "pow_cached_static_array"
                   => /\ Cardinality(KeysOf(fn, cache', is_cached'))
                             <= MAX_BASE * MAX_EXP
                      /\ \A k \in KeysOf(fn, cache', is_cached') :
                             Cacheable(fn, k[1], k[2]))]_vars

\* pow_cached_static_array(2, 2) was stored; then the call with
\* base = MAX_BASE returned 16^2 and stored nothing
C28_Witness ==
    /\ fn = "pow_cached_static_array"
    /\ ncalls = 2
    /\ base0 = MAX_BASE
    /\ exp0 = 2
    /\ ret = 256
    /\ computed = 1
    /\ StoredKeys = {<<2, 2>>}

\* C25: in pow_cached_static_array, in every state reached by calls of
\* any number of threads interleaved statement by statement, a set flag
\* is_cached[b][e] comes with cache[b][e] = pow_hierarchical_int(b, e).
C25_FlagImpliesValue ==
    fn = "pow_cached_static_array"
    => \A b \in 0 .. (MAX_BASE - 1), e \in 0 .. (MAX_EXP - 1) :
           is_cached[b][e] => cache[b][e] = pow_hierarchical_int(b, e)

\* thread 1 has stored cache[2][2] = 4 and set the flag while thread 2,
\* which found the flag unset, is about to store the same value
C25_Witness ==
    /\ fn = "pow_cached_static_array"
    /\ is_cached[2][2]
    /\ cache[2][2] = 4
    /\ tpc[1] \in {"at_return", "done"}
    /\ targ[1] = <<2, 2>>
    /\ tpc[2] = "at_write"
    /\ targ[2] = <<2, 2>>

===========================================================================
